---- MODULE Spec2Model ----
(***************************************************************************)
(* Billing ledger, scope filter and retention sweep of the SMA back office. *)
(* Money is counted in cents, consumption and tariff rates in thousandths,  *)
(* dates as small integers.                                                 *)
(***************************************************************************)
EXTENDS Integers, Sequences, FiniteSets, TLC

\* ---------------------------------------------------------------- bounds
MaxBills == 3

\* ------------------------------------------------------- tenant hierarchy
NULL == "NULL"

States == {"S1", "S2"}
Boards == {"B1", "B2"}
BoardState == [b \in Boards |-> IF b = "B1" THEN "S1" ELSE "S2"]

ConsumerIds == {"c1", "c2"}
Consumer == [c \in ConsumerIds |->
               IF c = "c1" THEN [id |-> "c1", stateId |-> "S1", boardId |-> "B1"]
                           ELSE [id |-> "c2", stateId |-> "S2", boardId |-> "B2"]]

TariffIds == {"T1", "T2"}
Tariff == [t \in TariffIds |->
             IF t = "T1" THEN [id |-> "T1", unitRate |-> 5250, fixedCharge |-> 50005]
                         ELSE [id |-> "T2", unitRate |-> 7000, fixedCharge |-> 100000]]

MeterIds == {"m1", "m2"}
SmartMeter == [m \in MeterIds |->
                 IF m = "m1" THEN [id |-> "m1", consumerId |-> "c1", tariffId |-> "T1"]
                             ELSE [id |-> "m2", consumerId |-> "c2", tariffId |-> "T2"]]

\* ------------------------------------------------------------- callers
Roles == {"SUPER_ADMIN", "STATE_ADMIN", "BOARD_ADMIN", "SUPPORT_AGENT", "AUDITOR"}
UserIds == {"u1", "u2", "u3", "u4", "u5"}

AuthUser == {u \in [id : {"u0"} \cup UserIds, role : Roles,
                    stateId : States \cup {NULL}, boardId : Boards \cup {NULL}] :
               u.stateId = NULL \/ u.boardId = NULL \/ BoardState[u.boardId] = u.stateId}

\* The stored admin users that issue the requests: the three roles that may
\* bill, a STATE_ADMIN that has no state assigned, and a SUPPORT_AGENT.
User == [u \in UserIds |->
    CASE u = "u1" -> [id |-> u, role |-> "SUPER_ADMIN", stateId |-> NULL, boardId |-> NULL]
      [] u = "u2" -> [id |-> u, role |-> "STATE_ADMIN", stateId |-> "S1", boardId |-> NULL]
      [] u = "u3" -> [id |-> u, role |-> "BOARD_ADMIN", stateId |-> "S2", boardId |-> "B2"]
      [] u = "u4" -> [id |-> u, role |-> "STATE_ADMIN", stateId |-> NULL, boardId |-> NULL]
      [] u = "u5" -> [id |-> u, role |-> "SUPPORT_AGENT", stateId |-> "S1", boardId |-> "B1"]]
Callers == {User[u] : u \in UserIds}

\* Variant: SUPPORT_AGENT and AUDITOR may recalculate as well.
ROLE_PERMISSIONS_AllRecalculate(role) ==
    IF role \in {"SUPER_ADMIN", "STATE_ADMIN", "BOARD_ADMIN"}
    THEN {"billing:read", "billing:generate", "billing:recalculate"}
    ELSE {"billing:read", "billing:recalculate"}

\* ROLE_PERMISSIONS, for the billing permissions.
ROLE_PERMISSIONS(role) ==
    CASE role = "SUPER_ADMIN" -> {"billing:read", "billing:generate", "billing:recalculate"}
      [] role = "STATE_ADMIN" -> {"billing:read", "billing:generate", "billing:recalculate"}
      [] role = "BOARD_ADMIN" -> {"billing:read", "billing:generate", "billing:recalculate"}
      [] role = "SUPPORT_AGENT" -> {"billing:read"}
      [] role = "AUDITOR" -> {"billing:read"}

\* TRUE when the checkPermission middleware lets the request through.
checkPermission(user, permission) == permission \in ROLE_PERMISSIONS(user.role)

\* ---------------------------------------------------------- scope filter
\* A where-fragment: a key that is NULL is absent from the object.
EmptyFilter == [stateId |-> NULL, boardId |-> NULL]

buildScopeFilter(user) ==
    IF user.role = "SUPER_ADMIN" THEN EmptyFilter
    ELSE IF user.role = "STATE_ADMIN" /\ user.stateId # NULL
         THEN [stateId |-> user.stateId, boardId |-> NULL]
    ELSE IF user.role = "BOARD_ADMIN" /\ user.boardId # NULL
         THEN [stateId |-> NULL, boardId |-> user.boardId]
    ELSE IF user.boardId # NULL THEN [stateId |-> NULL, boardId |-> user.boardId]
    ELSE IF user.stateId # NULL THEN [stateId |-> user.stateId, boardId |-> NULL]
    ELSE EmptyFilter

\* A self-service consumer as caller.
AuthConsumer == {[id |-> c, role |-> "CONSUMER", stateId |-> Consumer[c].stateId,
                  boardId |-> Consumer[c].boardId] : c \in ConsumerIds}

\* Every caller identity, up to its id.
AnyCaller == {u \in AuthUser : u.id = "u0"}

\* Evaluation of a where-fragment on a row that carries stateId and boardId.
MatchesWhere(row, where) ==
    /\ where.stateId # NULL => row.stateId = where.stateId
    /\ where.boardId # NULL => row.boardId = where.boardId

\* { consumer: base }, or {} when base is empty: the fragment applied to the
\* meter's consumer.
buildMeterScopeFilter(user) == buildScopeFilter(user)

\* -------------------------------------------------------------- numerics
\* Math.round(n / d) for n >= 0, d > 0.
RoundDiv(n, d) == (2 * n + d) \div (2 * d)

RECURSIVE SumConsumption(_)
SumConsumption(rs) ==
    IF rs = {} THEN 0
    ELSE LET r == CHOOSE x \in rs : TRUE
         IN r.consumption + SumConsumption(rs \ {r})

\* --------------------------------------------------------------- inputs
BadDate == 0 - 1                     \* a string that new Date() cannot parse
NoTaxRate == 0 - 1                   \* taxRate omitted from the request
BillingStarts == {BadDate, 1, 2, 3}
BillingEnds == {3}
TaxRates == {NoTaxRate}               \* per cent
MeterInputs == MeterIds \cup {"mX"}  \* "mX" is not a stored meter
BillIds == 1 .. MaxBills
Reasons == {"r1"}
Procs == {"p1", "p2"}
EntityTypes == {"MeterReading", "AuditLog", "GeneratedReportFile", "CustomerQuery"}
Cutoffs == {3}
\* (stateId, boardId) of the retention policies that are swept
PolicyScopes == {[stateId |-> "S1", boardId |-> NULL]}

GenerateBillInput == [meterId : MeterInputs, billingStart : BillingStarts,
                      billingEnd : BillingEnds, taxRate : TaxRates]
RecalculateInput == [billingReportId : BillIds, reason : Reasons]

\* ---------------------------------------------------------------- state
VARIABLES consumers,    \* Consumer table, by id
          bills,        \* BillingReport table; a row's id is its index
          logs,         \* RecalculationLog table
          readings,     \* MeterReading table
          auditLogs,    \* AuditLog table, each row with its actor's scope
          reportFiles,  \* GeneratedReportFile table
          queries,      \* CustomerQuery table, each row with its consumer's scope
          meterTariff,  \* SmartMeter.tariffId, by meter id
          aggregates,   \* ConsumptionAggregate table
          policies,     \* DataRetentionPolicy table; a row's id is its index
          sweep,        \* what runRetentionCleanup returned last: its results
          users,        \* User table, by id
          billViews,    \* CustomerBillView table
          pc,           \* per request: "idle", or where the handler stands
          local,        \* per request: what the handler has read and computed
          result        \* outcome of the handler that completed last

admin == <<policies, sweep, users, billViews>>
vars == <<consumers, bills, logs, readings, auditLogs, reportFiles, queries,
          meterTariff, aggregates, admin, pc, local, result>>
store == <<consumers, bills, logs, readings, auditLogs, reportFiles, queries,
           meterTariff, aggregates, admin>>

\* The consumer a meter belongs to, and a where-fragment applied through it.
MeterConsumer(m) == consumers[SmartMeter[m].consumerId]
MeterMatches(m, meterScope) == MatchesWhere(MeterConsumer(m), meterScope)

NoResult == [op |-> "none", kind |-> "none", msg |-> ""]

Ok(op) == [op |-> op, kind |-> "ok", msg |-> ""]
\* The message names the entity and the id that was asked for.
NotFoundError(op, entity) ==
    [op |-> op, kind |-> "NotFound", msg |-> entity]
BadRequestError(op, message) ==
    [op |-> op, kind |-> "BadRequest", msg |-> message]
ForbiddenError(op) ==
    [op |-> op, kind |-> "Forbidden", msg |-> "Missing permission"]
\* mapPrismaError on a storage failure: a 500 AppError.
mapPrismaError(op) ==
    [op |-> op, kind |-> "Internal", msg |-> "Database error"]

Init ==
    /\ consumers = Consumer
    /\ bills = <<>>
    /\ logs = <<>>
    /\ readings = {[meterId |-> "m1", timestamp |-> 1, consumption |-> 1005],
                   [meterId |-> "m1", timestamp |-> 2, consumption |-> 2500],
                   [meterId |-> "m2", timestamp |-> 1, consumption |-> 500]}
    /\ auditLogs = {}
    /\ reportFiles = {}
    /\ queries = {}
    /\ meterTariff = [m \in MeterIds |-> SmartMeter[m].tariffId]
    /\ aggregates = <<>>
    /\ policies = <<>>
    /\ sweep = <<>>
    /\ users = User
    /\ billViews = {}
    /\ pc = [p \in Procs |-> "idle"]
    /\ local = [p \in Procs |-> <<>>]
    /\ result = NoResult

\* Requests between their read and their transaction: each will insert a bill.
InFlight == Cardinality({p \in Procs : pc[p] = "tx"})

\* ------------------------------------------------------ billing helpers
\* Variant: the end of the window is excluded.
ReadingsInHalfOpen(m, start, end) ==
    {r \in readings : r.meterId = m /\ r.timestamp >= start /\ r.timestamp < end}

\* findMany with timestamp: { gte: start, lte: end } on one meter.
ReadingsIn(m, start, end) ==
    {r \in readings : r.meterId = m /\ r.timestamp >= start /\ r.timestamp <= end}

\* findMeterOrThrow: the meter row, or NULL when the scoped lookup finds none.
findMeter(meterId, user) ==
    IF meterId \in MeterIds /\ MeterMatches(meterId, buildMeterScopeFilter(user))
    THEN meterId ELSE NULL

\* TRUE when assertMeterScope returns, FALSE when it throws.
assertMeterScopeState(user, meterId) ==
    ~(user.role = "STATE_ADMIN" /\ user.stateId # NULL
      /\ user.stateId # MeterConsumer(meterId).stateId)
assertMeterScopeBoard(user, meterId) ==
    ~(user.role \in {"BOARD_ADMIN", "SUPPORT_AGENT"} /\ user.boardId # NULL
      /\ user.boardId # MeterConsumer(meterId).boardId)
assertMeterScope(user, meterId) ==
    \/ user.role = "SUPER_ADMIN"
    \/ assertMeterScopeState(user, meterId) /\ assertMeterScopeBoard(user, meterId)

\* Variant: the tax is charged on the energy charge alone.
GenerateChargesTaxOnEnergy(units, tariff, taxRateIn) ==
    LET energyCharge == RoundDiv(units * tariff.unitRate, 10000)
        fixedCharge == RoundDiv(tariff.fixedCharge, 10)
        taxRate == IF taxRateIn = NoTaxRate THEN 0 ELSE taxRateIn
        taxAmount == RoundDiv(energyCharge * taxRate, 100)
    IN [totalUnits |-> RoundDiv(units, 10), energyCharge |-> energyCharge,
        fixedCharge |-> fixedCharge, taxAmount |-> taxAmount,
        totalAmount |-> energyCharge + fixedCharge + taxAmount]

\* Charges of generateBill, in cents; totalUnits in hundredths of a unit.
GenerateCharges(units, tariff, taxRateIn) ==
    LET energyCharge == RoundDiv(units * tariff.unitRate, 10000)
        fixedCharge == RoundDiv(tariff.fixedCharge, 10)
        subtotal == energyCharge + fixedCharge
        taxRate == IF taxRateIn = NoTaxRate THEN 0 ELSE taxRateIn
        taxAmount == RoundDiv(subtotal * taxRate, 100)
    IN [totalUnits |-> RoundDiv(units, 10), energyCharge |-> energyCharge,
        fixedCharge |-> fixedCharge, taxAmount |-> taxAmount,
        totalAmount |-> subtotal + taxAmount]

\* Variant: the tax amount of the existing record is carried over.
RecalculateChargesKeepTax(units, tariff, existing) ==
    LET energyCharge == RoundDiv(units * tariff.unitRate, 10000)
        fixedCharge == RoundDiv(tariff.fixedCharge, 10)
    IN [totalUnits |-> RoundDiv(units, 10), energyCharge |-> energyCharge,
        fixedCharge |-> fixedCharge, taxAmount |-> existing.taxAmount,
        totalAmount |-> energyCharge + fixedCharge + existing.taxAmount]

\* Variant: the tax is charged anew at the rate of an omitted taxRate.
RecalculateChargesNoRatio(units, tariff, existing) ==
    GenerateCharges(units, tariff, NoTaxRate)

\* Charges of recalculateBill: the tax ratio of the existing record is kept.
RecalculateCharges(units, tariff, existing) ==
    LET energyCharge == RoundDiv(units * tariff.unitRate, 10000)
        fixedCharge == RoundDiv(tariff.fixedCharge, 10)
        subtotal == energyCharge + fixedCharge
        taxAmount == IF existing.taxAmount # 0
                     THEN RoundDiv(subtotal * existing.taxAmount,
                                   existing.energyCharge + existing.fixedCharge)
                     ELSE 0
    IN [totalUnits |-> RoundDiv(units, 10), energyCharge |-> energyCharge,
        fixedCharge |-> fixedCharge, taxAmount |-> taxAmount,
        totalAmount |-> subtotal + taxAmount]

NewBill(id, meterId, tariffId, start, end, c, version) ==
    [id |-> id, meterId |-> meterId, tariffId |-> tariffId,
     billingStart |-> start, billingEnd |-> end,
     totalUnits |-> c.totalUnits, energyCharge |-> c.energyCharge,
     fixedCharge |-> c.fixedCharge, taxAmount |-> c.taxAmount,
     totalAmount |-> c.totalAmount, version |-> version, isLatest |-> TRUE]

\* ---------------------------------------------------------- generateBill
\* Variant: an empty billing window is billed like any other.
GenerateBillOutcomeEmptyWindow(input, user) ==
    LET op == "generateBill"
        meter == findMeter(input.meterId, user)
    IN IF ~checkPermission(user, "billing:generate") THEN ForbiddenError(op)
       ELSE IF input.billingStart = BadDate \/ input.billingEnd = BadDate
       THEN BadRequestError(op, "Invalid date format")
       ELSE IF input.billingStart >= input.billingEnd
       THEN BadRequestError(op, "Start date must be before end date")
       ELSE IF meter = NULL THEN NotFoundError(op, "SmartMeter")
       ELSE Ok(op)

GenerateBillOutcome(input, user) ==
    LET op == "generateBill"
        meter == findMeter(input.meterId, user)
        rs == ReadingsIn(meter, input.billingStart, input.billingEnd)
    IN IF ~checkPermission(user, "billing:generate") THEN ForbiddenError(op)
       ELSE IF input.billingStart = BadDate \/ input.billingEnd = BadDate
       THEN BadRequestError(op, "Invalid date format")
       ELSE IF input.billingStart >= input.billingEnd
       THEN BadRequestError(op, "Start date must be before end date")
       ELSE IF meter = NULL THEN NotFoundError(op, "SmartMeter")
       ELSE IF rs = {}
       THEN BadRequestError(op, "No meter readings found for the specified billing period")
       ELSE Ok(op)

GenerateBill(input, user) ==
    LET out == GenerateBillOutcome(input, user)
        meter == SmartMeter[input.meterId]
        rs == ReadingsIn(meter.id, input.billingStart, input.billingEnd)
        tariffId == meterTariff[meter.id]
        c == GenerateCharges(SumConsumption(rs), Tariff[tariffId], input.taxRate)
    IN /\ out.kind = "ok" => Len(bills) + InFlight < MaxBills
       /\ bills' = IF out.kind = "ok"
                   THEN Append(bills, NewBill(Len(bills) + 1, meter.id, tariffId,
                                              input.billingStart, input.billingEnd, c, 1))
                   ELSE bills
       /\ result' = out
       /\ UNCHANGED <<admin, consumers, logs, readings, auditLogs, reportFiles, queries,
                      meterTariff, aggregates, pc, local>>

\* ------------------------------------------------------- recalculateBill
\* The checks before the transaction: an error result, or an ok result.
RecalculateCheck(input, user) ==
    LET op == "recalculateBill"
        id == input.billingReportId
    IN IF ~checkPermission(user, "billing:recalculate") THEN ForbiddenError(op)
       ELSE IF id > Len(bills) THEN NotFoundError(op, "BillingReport")
       ELSE IF assertMeterScope(user, bills[id].meterId) THEN Ok(op)
       ELSE IF ~assertMeterScopeState(user, bills[id].meterId)
       THEN BadRequestError(op, "Meter does not belong to your state")
       ELSE BadRequestError(op, "Meter does not belong to your board")

\* What the handler has read and computed when it opens the transaction.
RecalculatePlan(input, user) ==
    LET existing == bills[input.billingReportId]
        rs == ReadingsIn(existing.meterId, existing.billingStart, existing.billingEnd)
    IN [id |-> existing.id, existing |-> existing,
        c |-> RecalculateCharges(SumConsumption(rs), Tariff[existing.tariffId], existing),
        newVersion |-> existing.version + 1,
        reason |-> input.reason, triggeredBy |-> user.id]

\* Variant: the existing row is corrected in place as well as superseded.
TxUpdateInPlace(s, plan) ==
    [s EXCEPT !.bills = [s.bills EXCEPT ![plan.id].isLatest = FALSE,
                                        ![plan.id].version = plan.newVersion]]

TxUpdate(s, plan) ==
    [s EXCEPT !.bills = [s.bills EXCEPT ![plan.id].isLatest = FALSE]]

TxCreateReport(s, plan) ==
    [s EXCEPT !.bills =
        Append(s.bills, NewBill(Len(s.bills) + 1, plan.existing.meterId,
                                plan.existing.tariffId, plan.existing.billingStart,
                                plan.existing.billingEnd, plan.c, plan.newVersion))]

\* Variant: the log row references the superseded record.
TxCreateLogOldId(s, plan) ==
    [s EXCEPT !.logs =
        Append(s.logs, [id |-> Len(s.logs) + 1, billingReportId |-> plan.id,
                        reason |-> plan.reason, triggeredBy |-> plan.triggeredBy,
                        previousVersion |-> plan.existing.version,
                        newVersion |-> plan.newVersion])]

TxCreateLog(s, plan) ==
    [s EXCEPT !.logs =
        Append(s.logs, [id |-> Len(s.logs) + 1, billingReportId |-> Len(s.bills),
                        reason |-> plan.reason, triggeredBy |-> plan.triggeredBy,
                        previousVersion |-> plan.existing.version,
                        newVersion |-> plan.newVersion])]

\* The store after 0, 1, 2 and 3 statements of the transaction body.
TxStages(plan) ==
    LET s0 == [bills |-> bills, logs |-> logs]
        s1 == TxUpdate(s0, plan)
        s2 == TxCreateReport(s1, plan)
        s3 == TxCreateLog(s2, plan)
    IN <<s0, s1, s2, s3>>

\* prisma.$transaction: failAt = 0 commits; failAt = k means statement k throws
\* and everything is rolled back.
FailPoints == 0 .. 3
\* Variant: the statements run without a transaction, nothing is rolled back.
transactionNoRollback(stages, failAt) ==
    IF failAt = 0 THEN stages[4] ELSE stages[failAt]

transaction(stages, failAt) ==
    IF failAt = 0 THEN stages[4] ELSE stages[1]

\* The handler as one step (requests served one after the other).
RecalculateBill(input, user, failAt) ==
    LET chk == RecalculateCheck(input, user)
        plan == RecalculatePlan(input, user)
        after == transaction(TxStages(plan), failAt)
    IN /\ \A p \in Procs : pc[p] = "idle"
       /\ chk.kind = "ok" => Len(bills) < MaxBills
       /\ IF chk.kind # "ok"
          THEN /\ result' = chk
               /\ UNCHANGED <<bills, logs>>
          ELSE /\ bills' = after.bills
               /\ logs' = after.logs
               /\ result' = IF failAt = 0
                            THEN Ok("recalculateBill")
                            ELSE mapPrismaError("recalculateBill")
       /\ UNCHANGED <<admin, consumers, readings, auditLogs, reportFiles, queries,
                      meterTariff, aggregates, pc, local>>

\* The handler up to the point where it opens the transaction.
RecalcRead(p, input, user) ==
    LET chk == RecalculateCheck(input, user)
    IN /\ pc[p] = "idle"
       /\ chk.kind = "ok" => Len(bills) + InFlight < MaxBills
       /\ IF chk.kind # "ok"
          THEN /\ result' = chk
               /\ UNCHANGED <<pc, local>>
          ELSE /\ pc' = [pc EXCEPT ![p] = "tx"]
               /\ local' = [local EXCEPT ![p] = <<RecalculatePlan(input, user)>>]
               /\ UNCHANGED result
       /\ UNCHANGED store

\* The transaction of a request that has done its read.
RecalcTx(p, failAt) ==
    LET after == transaction(TxStages(local[p][1]), failAt)
    IN /\ pc[p] = "tx"
       /\ bills' = after.bills
       /\ logs' = after.logs
       /\ result' = IF failAt = 0
                    THEN Ok("recalculateBill")
                    ELSE mapPrismaError("recalculateBill")
       /\ pc' = [pc EXCEPT ![p] = "idle"]
       /\ local' = [local EXCEPT ![p] = <<>>]
       /\ UNCHANGED <<admin, consumers, readings, auditLogs, reportFiles, queries,
                      meterTariff, aggregates>>

\* ------------------------------------------------------ retention sweep
\* The where-fragment of a policy: boardId if set, else stateId if set.
PolicyWhere(stateId, boardId) ==
    IF boardId # NULL THEN [stateId |-> NULL, boardId |-> boardId]
    ELSE IF stateId # NULL THEN [stateId |-> stateId, boardId |-> NULL]
    ELSE EmptyFilter

\* The four tables a policy can name, as one value.
Tables == [readings |-> readings, auditLogs |-> auditLogs,
           reportFiles |-> reportFiles, queries |-> queries]

\* The row that carries the stateId and boardId a where-fragment is applied
\* to: the meter's consumer, the acting user, the file itself, the consumer.
RowScope(entityType, r) ==
    CASE entityType = "MeterReading" -> MeterConsumer(r.meterId)
      [] entityType = "AuditLog" -> users[r.userId]
      [] entityType = "GeneratedReportFile" -> r
      [] entityType = "CustomerQuery" -> consumers[r.consumerId]

\* timestamp for a reading, createdAt for the other entities.
RowTime(entityType, r) ==
    IF entityType = "MeterReading" THEN r.timestamp ELSE r.createdAt

TableOf(s, entityType) ==
    CASE entityType = "MeterReading" -> s.readings
      [] entityType = "AuditLog" -> s.auditLogs
      [] entityType = "GeneratedReportFile" -> s.reportFiles
      [] entityType = "CustomerQuery" -> s.queries
      [] OTHER -> {}

\* Variant: rows stamped exactly at the cutoff are matched as well.
OldRecordsLte(s, entityType, cutoff, w) ==
    {r \in TableOf(s, entityType) :
        RowTime(entityType, r) <= cutoff /\ MatchesWhere(RowScope(entityType, r), w)}

\* The rows deleteMany matches: { lt: cutoff } and the policy's fragment.
OldRecords(s, entityType, cutoff, w) ==
    {r \in TableOf(s, entityType) :
        RowTime(entityType, r) < cutoff /\ MatchesWhere(RowScope(entityType, r), w)}

\* deleteOldRecords on the tables s: the tables afterwards and result.count.
deleteOldRecords(s, entityType, cutoff, stateId, boardId) ==
    LET gone == OldRecords(s, entityType, cutoff, PolicyWhere(stateId, boardId))
    IN [s |-> [readings |-> IF entityType = "MeterReading"
                            THEN s.readings \ gone ELSE s.readings,
               auditLogs |-> IF entityType = "AuditLog"
                             THEN s.auditLogs \ gone ELSE s.auditLogs,
               reportFiles |-> IF entityType = "GeneratedReportFile"
                               THEN s.reportFiles \ gone ELSE s.reportFiles,
               queries |-> IF entityType = "CustomerQuery"
                           THEN s.queries \ gone ELSE s.queries],
        count |-> Cardinality(gone)]

\* One policy of a sweep, with the cutoff it has computed.
DeleteOldRecords(entityType, cutoff, stateId, boardId) ==
    LET after == deleteOldRecords(Tables, entityType, cutoff, stateId, boardId).s
    IN /\ readings' = after.readings
       /\ auditLogs' = after.auditLogs
       /\ reportFiles' = after.reportFiles
       /\ queries' = after.queries
       /\ result' = Ok("deleteOldRecords")
       /\ UNCHANGED <<admin, consumers, bills, logs, meterTariff, aggregates, pc, local>>

\* ------------------------------------------------ consumption aggregates
Granularities == {"DAILY"}
AggregateInput == [meterId : MeterInputs, periodStart : {BadDate, 1, 2},
                   periodEnd : {2, 3}, granularity : Granularities]

\* mapPrismaError on P2002, a unique constraint violation.
ConflictError(op) ==
    [op |-> op, kind |-> "Conflict", msg |-> "Unique constraint violation"]

StoredAggregates == {aggregates[i] : i \in 1 .. Len(aggregates)}

AggregateConsumptionOutcome(input, user) ==
    LET op == "aggregateConsumption"
    IN IF ~checkPermission(user, "billing:generate") THEN ForbiddenError(op)
       ELSE IF input.periodStart = BadDate \/ input.periodEnd = BadDate
       THEN BadRequestError(op, "Invalid date format")
       ELSE IF input.periodStart >= input.periodEnd
       THEN BadRequestError(op, "Start date must be before end date")
       ELSE IF findMeter(input.meterId, user) = NULL THEN NotFoundError(op, "SmartMeter")
       ELSE Ok(op)

\* What aggregateConsumption hands to the upsert. The readings of the model
\* carry no voltage and no current, so maxDemand and avgVoltage are null.
AggregateTotals(input) ==
    LET rs == ReadingsIn(input.meterId, input.periodStart, input.periodEnd)
    IN [meterId |-> input.meterId, periodStart |-> input.periodStart,
        granularity |-> input.granularity, periodEnd |-> input.periodEnd,
        totalUnits |-> RoundDiv(SumConsumption(rs), 10),
        maxDemand |-> NULL, avgVoltage |-> NULL]

\* The rows (by index) that carry the key meterId_periodStart_granularity of t.
AggIndex(rows, t) ==
    {i \in 1 .. Len(rows) : /\ rows[i].meterId = t.meterId
                            /\ rows[i].periodStart = t.periodStart
                            /\ rows[i].granularity = t.granularity}

AggRow(id, t) ==
    [id |-> id, meterId |-> t.meterId, periodStart |-> t.periodStart,
     granularity |-> t.granularity, periodEnd |-> t.periodEnd,
     totalUnits |-> t.totalUnits, maxDemand |-> t.maxDemand,
     avgVoltage |-> t.avgVoltage]

\* The update branch and the create branch of the upsert.
aggUpdate(rows, t) ==
    LET i == CHOOSE x \in AggIndex(rows, t) : TRUE
    IN [rows EXCEPT ![i] = AggRow(i, t)]
aggCreate(rows, t) == Append(rows, AggRow(Len(rows) + 1, t))

\* Variant: the table has no unique index on the key.
uniqueViolationNoIndex(rows, t) == FALSE

\* The unique index on (meterId, periodStart, granularity) rejects an insert.
uniqueViolation(rows, t) == AggIndex(rows, t) # {}

\* prisma.consumptionAggregate.upsert as one statement.
upsert(rows, t) ==
    IF AggIndex(rows, t) # {} THEN aggUpdate(rows, t) ELSE aggCreate(rows, t)

\* The handler as one step (requests served one after the other).
AggregateConsumption(input, user) ==
    LET out == AggregateConsumptionOutcome(input, user)
    IN /\ \A p \in Procs : pc[p] = "idle"
       /\ aggregates' = IF out.kind = "ok"
                        THEN upsert(aggregates, AggregateTotals(input))
                        ELSE aggregates
       /\ result' = out
       /\ UNCHANGED <<admin, consumers, bills, logs, readings, auditLogs, reportFiles,
                      queries, meterTariff, pc, local>>

\* The handler up to the upsert: validation, meter lookup, readings, totals.
AggRead(p, input, user) ==
    LET out == AggregateConsumptionOutcome(input, user)
    IN /\ pc[p] = "idle"
       /\ IF out.kind # "ok"
          THEN /\ result' = out
               /\ UNCHANGED <<pc, local>>
          ELSE /\ pc' = [pc EXCEPT ![p] = "upsert"]
               /\ local' = [local EXCEPT ![p] = <<AggregateTotals(input)>>]
               /\ UNCHANGED result
       /\ UNCHANGED store

\* The upsert executed by the database as one INSERT .. ON CONFLICT statement.
AggUpsert(p) ==
    /\ pc[p] = "upsert"
    /\ aggregates' = upsert(aggregates, local[p][1])
    /\ result' = Ok("aggregateConsumption")
    /\ pc' = [pc EXCEPT ![p] = "idle"]
    /\ local' = [local EXCEPT ![p] = <<>>]
    /\ UNCHANGED <<admin, consumers, bills, logs, readings, auditLogs, reportFiles,
                   queries, meterTariff>>

\* The upsert executed by the client as a read followed by a write: the read.
AggSelect(p) ==
    /\ pc[p] = "upsert"
    /\ pc' = [pc EXCEPT ![p] = "write"]
    /\ local' = [local EXCEPT ![p] = <<local[p][1], AggIndex(aggregates, local[p][1]) # {}>>]
    /\ UNCHANGED <<store, result>>

\* ... and the write: an update of the row that was read, or an insert, which
\* the unique index rejects when the key has been inserted in the meantime.
AggWrite(p) ==
    LET t == local[p][1]
        found == local[p][2]
        rejected == ~found /\ uniqueViolation(aggregates, t)
    IN /\ pc[p] = "write"
       /\ aggregates' = IF found THEN aggUpdate(aggregates, t)
                        ELSE IF rejected THEN aggregates
                        ELSE aggCreate(aggregates, t)
       /\ result' = IF rejected THEN ConflictError("aggregateConsumption")
                    ELSE Ok("aggregateConsumption")
       /\ pc' = [pc EXCEPT ![p] = "idle"]
       /\ local' = [local EXCEPT ![p] = <<>>]
       /\ UNCHANGED <<admin, consumers, bills, logs, readings, auditLogs, reportFiles,
                      queries, meterTariff>>

\* SmartMeterService.findMeterOrThrow spreads the scope fragment into the
\* where object of the SmartMeter query itself: a fragment with a key is not
\* a valid SmartMeter filter and the query is refused.
getMeterConsumptionSummaryOutcome(meterId, user) ==
    LET op == "getMeterConsumptionSummary"
    IN IF buildScopeFilter(user) # EmptyFilter THEN mapPrismaError(op)
       ELSE IF meterId \notin MeterIds THEN NotFoundError(op, "SmartMeter")
       ELSE Ok(op)

\* The summary returned for a meter that was found.
getMeterConsumptionSummary(meterId, periodStart, periodEnd) ==
    LET rs == ReadingsIn(meterId, periodStart, periodEnd)
    IN [meterId |-> meterId, periodStart |-> periodStart, periodEnd |-> periodEnd,
        totalUnits |-> RoundDiv(SumConsumption(rs), 10),
        readingCount |-> Cardinality(rs),
        maxDemand |-> NULL, avgVoltage |-> NULL]

\* ------------------------------------------------------ tariff of a meter
\* SmartMeter.tariffId is rewritten in the table (a change of rate plan made
\* on the database; the service writes the column in createMeter only).
UpdateMeterTariff(meterId, tariffId) ==
    /\ meterTariff[meterId] # tariffId
    /\ meterTariff' = [meterTariff EXCEPT ![meterId] = tariffId]
    /\ result' = Ok("updateMeterTariff")
    /\ UNCHANGED <<admin, consumers, bills, logs, readings, auditLogs, reportFiles,
                   queries, aggregates, pc, local>>

\* -------------------------------------------------------- specifications
Next ==
    \/ \E input \in GenerateBillInput, user \in Callers : GenerateBill(input, user)
    \/ \E input \in RecalculateInput, user \in Callers, failAt \in FailPoints :
          RecalculateBill(input, user, failAt)
    \/ \E entityType \in EntityTypes, cutoff \in Cutoffs,
          scope \in PolicyScopes :
          DeleteOldRecords(entityType, cutoff, scope.stateId, scope.boardId)

Spec == Init /\ [][Next]_vars

\* Requests whose steps interleave: recalculations race on the bills of one
\* billing period.
ConcGenerateBillInput == [meterId : MeterIds, billingStart : {1},
                          billingEnd : BillingEnds, taxRate : TaxRates]

NextConc ==
    \/ \E input \in ConcGenerateBillInput, user \in Callers : GenerateBill(input, user)
    \/ \E p \in Procs, input \in RecalculateInput, user \in Callers :
          RecalcRead(p, input, user)
    \/ \E p \in Procs, failAt \in FailPoints : RecalcTx(p, failAt)

SpecConc == Init /\ [][NextConc]_vars

\* Billing with a tax rate, retention sweeps that delete a part of a billing
\* window, and a change of the meter's tariff.
BillingTaxRates == {NoTaxRate, 5}
BillingCutoffs == {2, 3}
BillingCallers == {User["u1"]}
BillingGenerateInput == {i \in [meterId : {"m1"}, billingStart : {1, 2},
                                billingEnd : {2, 3}, taxRate : BillingTaxRates] :
                            i.billingEnd = i.billingStart + 1}

NextBilling ==
    \/ \E input \in BillingGenerateInput, user \in BillingCallers :
          GenerateBill(input, user)
    \/ \E input \in RecalculateInput, user \in BillingCallers :
          RecalculateBill(input, user, 0)
    \/ \E cutoff \in BillingCutoffs, scope \in PolicyScopes :
          DeleteOldRecords("MeterReading", cutoff, scope.stateId, scope.boardId)
    \/ \E tariffId \in TariffIds : UpdateMeterTariff("m1", tariffId)

SpecBilling == Init /\ [][NextBilling]_vars

\* Billing and aggregation over the same windows of one meter, with retention
\* sweeps between them.
MeterCallers == {User["u1"], User["u5"]}
MeterGenerateInput == [meterId : {"m1", "mX"}, billingStart : {1},
                       billingEnd : {2, 3}, taxRate : TaxRates]
MeterAggregateInput == {i \in AggregateInput : i.meterId = "m1" /\ i.periodEnd = 2}

NextMeter ==
    \/ \E input \in MeterGenerateInput, user \in BillingCallers :
          GenerateBill(input, user)
    \/ \E input \in RecalculateInput, user \in MeterCallers :
          RecalculateBill(input, user, 0)
    \/ \E input \in MeterAggregateInput, user \in BillingCallers :
          AggregateConsumption(input, user)
    \/ \E cutoff \in BillingCutoffs, scope \in PolicyScopes :
          DeleteOldRecords("MeterReading", cutoff, scope.stateId, scope.boardId)

SpecMeter == Init /\ [][NextMeter]_vars

\* Aggregation requests whose steps interleave, with retention sweeps between
\* them.
AggCallers == {User["u1"], User["u3"]}
AggInput == {i \in AggregateInput : i.meterId # "m2"}

NextAgg ==
    \/ \E p \in Procs, input \in AggInput, user \in AggCallers : AggRead(p, input, user)
    \/ \E p \in Procs : AggUpsert(p)
    \/ \E p \in Procs : AggSelect(p)
    \/ \E p \in Procs : AggWrite(p)
    \/ \E cutoff \in BillingCutoffs, scope \in PolicyScopes :
          DeleteOldRecords("MeterReading", cutoff, scope.stateId, scope.boardId)

SpecAgg == Init /\ [][NextAgg]_vars

TypeOK ==
    /\ Len(bills) <= MaxBills
    /\ \A i \in 1 .. Len(bills) : bills[i].id = i /\ bills[i].version >= 1
    /\ pc \in [Procs -> {"idle", "tx", "upsert", "write", "update"}]
    /\ \A i \in 1 .. Len(aggregates) : aggregates[i].id = i

\* ------------------------------------------------------- read operations
NoDate == 0                          \* a date filter that was not supplied
ListBillsFilter == [meterId : MeterIds \cup {NULL}, consumerId : ConsumerIds \cup {NULL},
                    billingStart : {NoDate, 2}, billingEnd : {NoDate, 3}]
ListConsumersFilter == [stateId : States \cup {NULL}, boardId : Boards \cup {NULL}]
RoleFilters == Roles \cup {NULL}

StoredBills == {bills[i] : i \in 1 .. Len(bills)}
StoredLogs == {logs[i] : i \in 1 .. Len(logs)}

\* Variant: the record is looked up by id alone.
getBillByIdUnscoped(billId, user) ==
    {b \in StoredBills : b.id = billId}

\* The rows matched by getBillById's findFirst (none: NotFoundError).
getBillById(billId, user) ==
    {b \in StoredBills : b.id = billId /\ MeterMatches(b.meterId, buildMeterScopeFilter(user))}

\* The rows matched by listBills' where object; skip/take return a page of them.
\* Variant: the consumerId filter replaces the meter fragment, scope included.
listBillsMeterWhereOverride(b, filters, meterScope) ==
    IF filters.consumerId # NULL
    THEN SmartMeter[b.meterId].consumerId = filters.consumerId
    ELSE MeterMatches(b.meterId, meterScope)

listBillsMeterWhere(b, filters, meterScope) ==
    IF filters.consumerId # NULL
    THEN MeterMatches(b.meterId, meterScope)
         /\ SmartMeter[b.meterId].consumerId = filters.consumerId
    ELSE MeterMatches(b.meterId, meterScope)

listBills(filters, user) ==
    {b \in StoredBills :
        /\ b.isLatest
        /\ listBillsMeterWhere(b, filters, buildMeterScopeFilter(user))
        /\ filters.meterId # NULL => b.meterId = filters.meterId
        /\ filters.billingStart # NoDate => b.billingStart >= filters.billingStart
        /\ filters.billingEnd # NoDate => b.billingEnd <= filters.billingEnd}

\* The log rows returned; none when getBillById throws.
getRecalculationHistory(billId, user) ==
    IF getBillById(billId, user) = {} THEN {}
    ELSE {l \in StoredLogs : l.billingReportId = billId}

\* The outcomes of the two reads by id, behind the billing:read route check.
getBillByIdOutcome(billId, user) ==
    IF ~checkPermission(user, "billing:read") THEN ForbiddenError("getBillById")
    ELSE IF getBillById(billId, user) = {}
    THEN NotFoundError("getBillById", "BillingReport")
    ELSE Ok("getBillById")

getRecalculationHistoryOutcome(billId, user) ==
    IF ~checkPermission(user, "billing:read")
    THEN ForbiddenError("getRecalculationHistory")
    ELSE IF getBillById(billId, user) = {}
    THEN NotFoundError("getRecalculationHistory", "BillingReport")
    ELSE Ok("getRecalculationHistory")

\* getAggregates: the meter is looked up in scope, then its rows are listed.
getAggregatesOutcome(meterId, user) ==
    IF ~checkPermission(user, "billing:read") THEN ForbiddenError("getAggregates")
    ELSE IF findMeter(meterId, user) = NULL
    THEN NotFoundError("getAggregates", "SmartMeter")
    ELSE Ok("getAggregates")

getAggregates(meterId, granularity, user) ==
    IF findMeter(meterId, user) = NULL THEN {}
    ELSE {a \in StoredAggregates :
            /\ a.meterId = meterId
            /\ granularity # NULL => a.granularity = granularity}

\* where = {...scopeFilter}, then the caller's stateId / boardId filter values
\* are assigned over the same keys.
listConsumersWhere(filters, scopeFilter) ==
    [stateId |-> IF filters.stateId # NULL THEN filters.stateId ELSE scopeFilter.stateId,
     boardId |-> IF filters.boardId # NULL THEN filters.boardId ELSE scopeFilter.boardId]

listConsumers(filters, adminUser) ==
    {consumers[c] : c \in {x \in DOMAIN consumers :
        MatchesWhere(consumers[x], listConsumersWhere(filters, buildScopeFilter(adminUser)))}}

\* assertAccess: TRUE when it returns. A consumer may read only its own row;
\* for an admin caller every branch returns ("scope enforced at query level").
assertAccess(consumerId, caller) ==
    IF caller.role = "CONSUMER" THEN caller.id = consumerId ELSE TRUE

\* The rows returned by getConsumerProfile (none: an error).
getConsumerProfile(consumerId, caller) ==
    IF assertAccess(consumerId, caller)
    THEN {consumers[c] : c \in {x \in DOMAIN consumers : x = consumerId}}
    ELSE {}

listUsers(authUser, role) ==
    {u \in Callers : /\ MatchesWhere(u, buildScopeFilter(authUser))
                     /\ role # NULL => u.role = role}

\* ==================================================== retention policies
MaxPolicies == 2

\* A Forbidden error thrown by a service, with its message.
ForbiddenWith(op, message) == [op |-> op, kind |-> "Forbidden", msg |-> message]

\* The where-fragment findPolicyOrThrow and listPolicies spread.
buildRetentionScopeFilter(authUser) ==
    IF authUser.role = "SUPER_ADMIN" THEN EmptyFilter
    ELSE IF authUser.role = "STATE_ADMIN" /\ authUser.stateId # NULL
         THEN [stateId |-> authUser.stateId, boardId |-> NULL]
    ELSE IF authUser.boardId # NULL THEN [stateId |-> NULL, boardId |-> authUser.boardId]
    ELSE IF authUser.stateId # NULL THEN [stateId |-> authUser.stateId, boardId |-> NULL]
    ELSE EmptyFilter

\* The (stateId, boardId) createRetentionPolicy stores for a caller that may
\* create policies.
createRetentionPolicyScope(input, authUser) ==
    CASE authUser.role = "SUPER_ADMIN" ->
             [stateId |-> input.stateId, boardId |-> input.boardId]
      [] authUser.role = "STATE_ADMIN" ->
             [stateId |-> authUser.stateId, boardId |-> NULL]
      [] OTHER -> [stateId |-> authUser.stateId, boardId |-> authUser.boardId]

\* Variant: retentionDays is not checked by the service.
createRetentionPolicyOutcomeAnyDays(input, authUser) ==
    LET op == "createRetentionPolicy"
        scope == createRetentionPolicyScope(input, authUser)
    IN IF input.entityType \notin EntityTypes
       THEN BadRequestError(op, "Invalid entityType")
       ELSE IF /\ authUser.role = "STATE_ADMIN" /\ input.stateId # NULL
               /\ input.stateId # authUser.stateId
       THEN ForbiddenWith(op, "You can only create policies for your own state")
       ELSE IF /\ authUser.role = "BOARD_ADMIN" /\ input.boardId # NULL
               /\ input.boardId # authUser.boardId
       THEN ForbiddenWith(op, "You can only create policies for your own board")
       ELSE IF authUser.role \notin {"SUPER_ADMIN", "STATE_ADMIN", "BOARD_ADMIN"}
       THEN ForbiddenWith(op, "You do not have permission to create retention policies")
       ELSE IF scope.stateId # NULL /\ scope.stateId \notin States
       THEN NotFoundError(op, "State")
       ELSE IF scope.boardId # NULL /\ scope.boardId \notin Boards
       THEN NotFoundError(op, "ElectricityBoard")
       ELSE Ok(op)

createRetentionPolicyOutcome(input, authUser) ==
    LET op == "createRetentionPolicy"
        scope == createRetentionPolicyScope(input, authUser)
    IN IF input.entityType \notin EntityTypes
       THEN BadRequestError(op, "Invalid entityType")
       ELSE IF input.retentionDays < 1
       THEN BadRequestError(op, "retentionDays must be at least 1")
       ELSE IF /\ authUser.role = "STATE_ADMIN" /\ input.stateId # NULL
               /\ input.stateId # authUser.stateId
       THEN ForbiddenWith(op, "You can only create policies for your own state")
       ELSE IF /\ authUser.role = "BOARD_ADMIN" /\ input.boardId # NULL
               /\ input.boardId # authUser.boardId
       THEN ForbiddenWith(op, "You can only create policies for your own board")
       ELSE IF authUser.role \notin {"SUPER_ADMIN", "STATE_ADMIN", "BOARD_ADMIN"}
       THEN ForbiddenWith(op, "You do not have permission to create retention policies")
       ELSE IF scope.stateId # NULL /\ scope.stateId \notin States
       THEN NotFoundError(op, "State")
       ELSE IF scope.boardId # NULL /\ scope.boardId \notin Boards
       THEN NotFoundError(op, "ElectricityBoard")
       ELSE Ok(op)

CreateRetentionPolicy(input, authUser) ==
    LET out == createRetentionPolicyOutcome(input, authUser)
        scope == createRetentionPolicyScope(input, authUser)
    IN /\ out.kind = "ok" => Len(policies) < MaxPolicies
       /\ policies' = IF out.kind = "ok"
                      THEN Append(policies,
                                  [id |-> Len(policies) + 1,
                                   entityType |-> input.entityType,
                                   retentionDays |-> input.retentionDays,
                                   stateId |-> scope.stateId, boardId |-> scope.boardId])
                      ELSE policies
       /\ result' = out
       /\ UNCHANGED <<sweep, users, billViews, consumers, bills, logs, readings,
                      auditLogs, reportFiles, queries, meterTariff, aggregates,
                      pc, local>>

NoDays == 0 - 1                      \* retentionDays omitted from the request

\* updatePolicy; entityType NULL and retentionDays NoDays were not supplied.
updatePolicyOutcome(id, input, authUser) ==
    LET op == "updatePolicy"
    IN IF ~(/\ id \in 1 .. Len(policies)
            /\ MatchesWhere(policies[id], buildRetentionScopeFilter(authUser)))
       THEN NotFoundError(op, "DataRetentionPolicy")
       ELSE IF input.entityType # NULL /\ input.entityType \notin EntityTypes
       THEN BadRequestError(op, "Invalid entityType")
       ELSE IF input.retentionDays # NoDays /\ input.retentionDays < 1
       THEN BadRequestError(op, "retentionDays must be at least 1")
       ELSE Ok(op)

UpdatePolicy(id, input, authUser) ==
    LET out == updatePolicyOutcome(id, input, authUser)
        old == policies[id]
    IN /\ policies' = IF out.kind = "ok"
                      THEN [policies EXCEPT ![id] =
                              [old EXCEPT
                                 !.entityType = IF input.entityType # NULL
                                                THEN input.entityType ELSE @,
                                 !.retentionDays = IF input.retentionDays # NoDays
                                                   THEN input.retentionDays ELSE @]]
                      ELSE policies
       /\ result' = out
       /\ UNCHANGED <<sweep, users, billViews, consumers, bills, logs, readings,
                      auditLogs, reportFiles, queries, meterTariff, aggregates,
                      pc, local>>

\* Variant: a delete that throws is reported with the rows it had matched.
CleanupEntryMatchedOnFailure(policy, cutoff, count, threw) ==
    [policyId |-> policy.id, entityType |-> policy.entityType,
     retentionDays |-> policy.retentionDays, cutoffDate |-> cutoff,
     deletedCount |-> count]

\* The entry pushed for one policy: deletedCount stays 0 when the delete threw.
CleanupEntry(policy, cutoff, count, threw) ==
    [policyId |-> policy.id, entityType |-> policy.entityType,
     retentionDays |-> policy.retentionDays, cutoffDate |-> cutoff,
     deletedCount |-> IF threw THEN 0 ELSE count]

\* The loop of runRetentionCleanup from policy i on, over the tables s: the
\* tables at the end and the entries pushed.  The deletes of the policies in
\* fails throw and delete nothing.
RECURSIVE Cleanup(_, _, _, _, _)
Cleanup(ps, i, s, now, fails) ==
    IF i > Len(ps) THEN [s |-> s, results |-> <<>>]
    ELSE LET policy == ps[i]
             cutoff == now - policy.retentionDays
             del == deleteOldRecords(s, policy.entityType, cutoff,
                                     policy.stateId, policy.boardId)
             rest == Cleanup(ps, i + 1, IF i \in fails THEN s ELSE del.s, now, fails)
         IN [s |-> rest.s,
             results |-> <<CleanupEntry(policy, cutoff, del.count, i \in fails)>>
                         \o rest.results]

RunRetentionCleanup(now, fails) ==
    LET done == Cleanup(policies, 1, Tables, now, fails)
    IN /\ readings' = done.s.readings
       /\ auditLogs' = done.s.auditLogs
       /\ reportFiles' = done.s.reportFiles
       /\ queries' = done.s.queries
       /\ sweep' = done.results
       /\ result' = Ok("runRetentionCleanup")
       /\ UNCHANGED <<policies, users, billViews, consumers, bills, logs,
                      meterTariff, aggregates, pc, local>>

\* A store that holds rows of every entity a policy can name, on both sides
\* of the cutoffs of the sweeps below.
InitSeeded ==
    /\ consumers = Consumer
    /\ bills = <<>>
    /\ logs = <<>>
    /\ readings = {[meterId |-> "m1", timestamp |-> 69, consumption |-> 1005],
                   [meterId |-> "m1", timestamp |-> 70, consumption |-> 2500],
                   [meterId |-> "m2", timestamp |-> 69, consumption |-> 500]}
    /\ auditLogs = {[id |-> "a1", userId |-> "u2", createdAt |-> 69],
                    [id |-> "a2", userId |-> "u3", createdAt |-> 69]}
    /\ reportFiles = {[id |-> "f1", stateId |-> "S1", boardId |-> "B1", createdAt |-> 69]}
    /\ queries = {[id |-> "q1", consumerId |-> "c1", createdAt |-> 69, status |-> "PENDING"],
                  [id |-> "q2", consumerId |-> "c2", createdAt |-> 70, status |-> "PENDING"]}
    /\ meterTariff = [m \in MeterIds |-> SmartMeter[m].tariffId]
    /\ aggregates = <<>>
    /\ policies = <<>>
    /\ sweep = <<>>
    /\ users = User
    /\ billViews = {}
    /\ pc = [p \in Procs |-> "idle"]
    /\ local = [p \in Procs |-> <<>>]
    /\ result = NoResult

\* Sweeps over policies a SUPER_ADMIN has created.
RetentionInput == [entityType : {"MeterReading", "AuditLog"}, retentionDays : {30, 31},
                   stateId : {NULL, "S1"}, boardId : {NULL, "B2"}]
Nows == {100}

NextRetention ==
    \/ \E input \in RetentionInput : CreateRetentionPolicy(input, users["u1"])
    \/ \E now \in Nows, fails \in SUBSET (1 .. Len(policies)) :
          RunRetentionCleanup(now, fails)

SpecRetention == InitSeeded /\ [][NextRetention]_vars

\* Policies created and updated by every stored admin user.
PolicyCreateInput == [entityType : {"MeterReading", "Invoice"}, retentionDays : {0, 1},
                      stateId : {NULL, "S2"}, boardId : {NULL}]
PolicyUpdateInput == [entityType : {NULL}, retentionDays : {NoDays, 0, 2}]

NextPolicy ==
    \/ \E input \in PolicyCreateInput, u \in DOMAIN users :
          CreateRetentionPolicy(input, users[u])
    \/ \E id \in 1 .. Len(policies), input \in PolicyUpdateInput, u \in DOMAIN users :
          UpdatePolicy(id, input, users[u])

SpecPolicy == Init /\ [][NextPolicy]_vars

\* ================================================= consumer self-service
\* Variant: the board is not compared with the selected state.
registerConsumerOutcomeAnyBoard(input, clerkUserId) ==
    LET op == "registerConsumer"
    IN IF clerkUserId \in DOMAIN consumers
       THEN BadRequestError(op, "A consumer account already exists for this Clerk user")
       ELSE IF input.stateId \notin States THEN NotFoundError(op, "State")
       ELSE IF input.boardId \notin Boards THEN NotFoundError(op, "ElectricityBoard")
       ELSE Ok(op)

\* registerConsumer; a consumer is identified by the Clerk user it is linked to.
registerConsumerOutcome(input, clerkUserId) ==
    LET op == "registerConsumer"
    IN IF clerkUserId \in DOMAIN consumers
       THEN BadRequestError(op, "A consumer account already exists for this Clerk user")
       ELSE IF input.stateId \notin States THEN NotFoundError(op, "State")
       ELSE IF input.boardId \notin Boards THEN NotFoundError(op, "ElectricityBoard")
       ELSE IF BoardState[input.boardId] # input.stateId
       THEN BadRequestError(op, "Board does not belong to the selected state")
       ELSE Ok(op)

RegisterConsumer(input, clerkUserId) ==
    LET out == registerConsumerOutcome(input, clerkUserId)
        created == [id |-> clerkUserId, stateId |-> input.stateId,
                    boardId |-> input.boardId]
    IN /\ consumers' = IF out.kind = "ok"
                       THEN [c \in DOMAIN consumers \cup {clerkUserId} |->
                               IF c = clerkUserId THEN created ELSE consumers[c]]
                       ELSE consumers
       /\ result' = out
       /\ UNCHANGED <<admin, bills, logs, readings, auditLogs, reportFiles, queries,
                      meterTariff, aggregates, pc, local>>

\* getConsumerBillById: findFirst { id, meter: { consumerId } }.
getConsumerBillById(billId, consumerId) ==
    {b \in StoredBills : b.id = billId /\ SmartMeter[b.meterId].consumerId = consumerId}

getConsumerBillByIdOutcome(billId, consumerId) ==
    IF getConsumerBillById(billId, consumerId) = {}
    THEN NotFoundError("getConsumerBillById", "BillingReport")
    ELSE Ok("getConsumerBillById")

\* recordBillView: findUnique { id }, then the view row is created.  billViews
\* holds the (bill, consumer) pairs that have a row.
RecordBillView(billingReportId, consumerId) ==
    LET op == "recordBillView"
        found == billingReportId \in 1 .. Len(bills)
    IN /\ billViews' = IF found
                       THEN billViews \cup {[billingReportId |-> billingReportId,
                                              consumerId |-> consumerId]}
                       ELSE billViews
       /\ result' = IF found THEN Ok(op) ELSE NotFoundError(op, "BillingReport")
       /\ UNCHANGED <<policies, sweep, users, consumers, bills, logs, readings,
                      auditLogs, reportFiles, queries, meterTariff, aggregates,
                      pc, local>>

\* Registrations, bills of meter m1, and views by the two seeded consumers.
RegisterConsumerInput == [stateId : States, boardId : Boards \cup {"BX"}]
ClerkUserIds == {"c1", "c3", "c4"}
SelfServiceBillInput == [meterId : {"m1"}, billingStart : {1}, billingEnd : {3},
                         taxRate : {NoTaxRate}]

NextSelfService ==
    \/ \E input \in RegisterConsumerInput, clerkUserId \in ClerkUserIds :
          RegisterConsumer(input, clerkUserId)
    \/ \E input \in SelfServiceBillInput : GenerateBill(input, users["u1"])
    \/ \E billId \in BillIds, c \in ConsumerIds : RecordBillView(billId, c)

SpecSelfService == Init /\ [][NextSelfService]_vars

\* ========================================================== admin users
\* CREATION_HIERARCHY: the roles a role may create or assign.
CREATION_HIERARCHY(role) ==
    CASE role = "SUPER_ADMIN" -> {"STATE_ADMIN", "BOARD_ADMIN", "SUPPORT_AGENT", "AUDITOR"}
      [] role = "STATE_ADMIN" -> {"BOARD_ADMIN", "SUPPORT_AGENT"}
      [] role = "BOARD_ADMIN" -> {"SUPPORT_AGENT"}
      [] OTHER -> {}

canCreateRole(creatorRole, targetRole) == targetRole \in CREATION_HIERARCHY(creatorRole)

\* findUserOrThrow: TRUE when the scoped lookup finds the user.
findUser(id, authUser) ==
    id \in DOMAIN users /\ MatchesWhere(users[id], buildScopeFilter(authUser))

\* The (stateId, boardId) of the input after createAdminUser's scope
\* enforcement has overwritten them.
createAdminUserScope(input, authUser) ==
    CASE authUser.role = "STATE_ADMIN" ->
             [stateId |-> authUser.stateId, boardId |-> input.boardId]
      [] authUser.role = "BOARD_ADMIN" ->
             [stateId |-> authUser.stateId, boardId |-> authUser.boardId]
      [] OTHER -> [stateId |-> input.stateId, boardId |-> input.boardId]

createAdminUserOutcome(input, authUser) ==
    LET op == "createAdminUser"
        scope == createAdminUserScope(input, authUser)
    IN IF ~canCreateRole(authUser.role, input.role)
       THEN ForbiddenWith(op, "cannot create users with this role")
       ELSE IF /\ authUser.role = "STATE_ADMIN" /\ input.stateId # NULL
               /\ input.stateId # authUser.stateId
       THEN ForbiddenWith(op, "You can only create users within your own state")
       ELSE IF /\ authUser.role = "BOARD_ADMIN" /\ input.boardId # NULL
               /\ input.boardId # authUser.boardId
       THEN ForbiddenWith(op, "You can only create users within your own board")
       ELSE IF scope.stateId # NULL /\ scope.stateId \notin States
       THEN NotFoundError(op, "State")
       ELSE IF scope.boardId # NULL /\ scope.boardId \notin Boards
       THEN NotFoundError(op, "ElectricityBoard")
       ELSE IF /\ scope.boardId # NULL /\ scope.stateId # NULL
               /\ BoardState[scope.boardId] # scope.stateId
       THEN BadRequestError(op, "Board does not belong to the specified state")
       ELSE Ok(op)

\* The ids a created user can get.
NewUserIds == {"u6"}

CreateAdminUser(id, input, authUser) ==
    LET out == createAdminUserOutcome(input, authUser)
        scope == createAdminUserScope(input, authUser)
    IN /\ id \in NewUserIds \ DOMAIN users
       /\ users' = IF out.kind = "ok"
                   THEN [u \in DOMAIN users \cup {id} |->
                           IF u = id
                           THEN [id |-> id, role |-> input.role,
                                 stateId |-> scope.stateId, boardId |-> scope.boardId]
                           ELSE users[u]]
                   ELSE users
       /\ result' = out
       /\ UNCHANGED <<policies, sweep, billViews, consumers, bills, logs, readings,
                      auditLogs, reportFiles, queries, meterTariff, aggregates,
                      pc, local>>

updateUserRoleOutcome(id, role, authUser) ==
    LET op == "updateUserRole"
    IN IF ~findUser(id, authUser) THEN NotFoundError(op, "User")
       ELSE IF id = authUser.id
       THEN ForbiddenWith(op, "You cannot change your own role")
       ELSE IF ~canCreateRole(authUser.role, role)
       THEN ForbiddenWith(op, "cannot assign this role")
       ELSE Ok(op)

UpdateUserRole(id, role, authUser) ==
    LET out == updateUserRoleOutcome(id, role, authUser)
    IN /\ users' = IF out.kind = "ok" THEN [users EXCEPT ![id].role = role] ELSE users
       /\ result' = out
       /\ UNCHANGED <<policies, sweep, billViews, consumers, bills, logs, readings,
                      auditLogs, reportFiles, queries, meterTariff, aggregates,
                      pc, local>>

\* updateUserScope; a stateId or boardId that is NULL was not supplied.
updateUserScopeOutcome(id, stateId, boardId, authUser) ==
    LET op == "updateUserScope"
    IN IF ~findUser(id, authUser) THEN NotFoundError(op, "User")
       ELSE IF id = authUser.id
       THEN ForbiddenWith(op, "You cannot change your own scope")
       ELSE IF /\ authUser.role = "STATE_ADMIN" /\ stateId # NULL
               /\ stateId # authUser.stateId
       THEN ForbiddenWith(op, "You can only assign users within your own state")
       ELSE IF /\ authUser.role = "BOARD_ADMIN" /\ boardId # NULL
               /\ boardId # authUser.boardId
       THEN ForbiddenWith(op, "You can only assign users within your own board")
       ELSE IF stateId # NULL /\ stateId \notin States THEN NotFoundError(op, "State")
       ELSE IF boardId # NULL /\ boardId \notin Boards
       THEN NotFoundError(op, "ElectricityBoard")
       ELSE IF boardId # NULL /\ stateId # NULL /\ BoardState[boardId] # stateId
       THEN BadRequestError(op, "Board does not belong to the specified state")
       ELSE Ok(op)

UpdateUserScope(id, stateId, boardId, authUser) ==
    LET out == updateUserScopeOutcome(id, stateId, boardId, authUser)
    IN /\ users' = IF out.kind = "ok"
                   THEN [users EXCEPT ![id].stateId = stateId, ![id].boardId = boardId]
                   ELSE users
       /\ result' = out
       /\ UNCHANGED <<policies, sweep, billViews, consumers, bills, logs, readings,
                      auditLogs, reportFiles, queries, meterTariff, aggregates,
                      pc, local>>

\* The seeded SUPER_ADMIN, STATE_ADMIN and BOARD_ADMIN manage the support
\* agent u5 and the users they create.
AdminCallers == {"u1", "u2", "u3"}
ManagedUserIds == {"u5", "u6"}
CreateAdminUserInput == [role : Roles, stateId : {NULL, "S1"}, boardId : {NULL, "B2"}]

NextUsers ==
    \/ \E id \in NewUserIds, input \in CreateAdminUserInput, u \in AdminCallers :
          CreateAdminUser(id, input, users[u])
    \/ \E id \in ManagedUserIds, role \in Roles, u \in AdminCallers :
          UpdateUserRole(id, role, users[u])
    \/ \E id \in ManagedUserIds, stateId \in States \cup {NULL},
          boardId \in Boards \cup {NULL}, u \in AdminCallers :
          UpdateUserScope(id, stateId, boardId, users[u])

SpecUsers == Init /\ [][NextUsers]_vars

\* ============================================================ AI queries
\* findQueryOrThrow: the rows the scoped lookup finds, the fragment applied
\* to the query's consumer.
findQuery(queryId, user) ==
    {q \in queries : /\ q.id = queryId
                     /\ MatchesWhere(consumers[q.consumerId], buildScopeFilter(user))}

\* classifyQueryWithAi and autoResolveQueryWithAi up to their update: the
\* checks.  The confidence is given in hundredths.
aiCheck(op, queryId, confidence, authUser) ==
    IF confidence < 0 \/ confidence > 100
    THEN BadRequestError(op, "aiConfidence must be between 0.0 and 1.0")
    ELSE IF findQuery(queryId, authUser) = {} THEN NotFoundError(op, "CustomerQuery")
    ELSE IF \E q \in findQuery(queryId, authUser) : q.status # "PENDING"
    THEN BadRequestError(op, "only PENDING queries can be processed")
    ELSE Ok(op)

\* The handler up to the point where it issues its update.
AiRead(p, op, queryId, confidence, authUser) ==
    LET chk == aiCheck(op, queryId, confidence, authUser)
    IN /\ pc[p] = "idle"
       /\ IF chk.kind # "ok"
          THEN /\ result' = chk
               /\ UNCHANGED <<pc, local>>
          ELSE /\ pc' = [pc EXCEPT ![p] = "update"]
               /\ local' = [local EXCEPT ![p] = <<[op |-> op, id |-> queryId]>>]
               /\ UNCHANGED result
       /\ UNCHANGED store

\* customerQuery.update({ where: { id } }): the status the handler sets.
AiUpdate(p) ==
    LET req == local[p][1]
        status == IF req.op = "classifyQueryWithAi" THEN "AI_REVIEWED" ELSE "RESOLVED"
    IN /\ pc[p] = "update"
       /\ queries' = {IF q.id = req.id THEN [q EXCEPT !.status = status] ELSE q :
                         q \in queries}
       /\ result' = Ok(req.op)
       /\ pc' = [pc EXCEPT ![p] = "idle"]
       /\ local' = [local EXCEPT ![p] = <<>>]
       /\ UNCHANGED <<admin, consumers, bills, logs, readings, auditLogs, reportFiles,
                      meterTariff, aggregates>>

NextQuery ==
    \/ \E p \in Procs, op \in {"classifyQueryWithAi", "autoResolveQueryWithAi"},
          queryId \in {"q1", "q2", "qX"}, confidence \in {90, 150},
          u \in {"u1", "u3"} :
          AiRead(p, op, queryId, confidence, users[u])
    \/ \E p \in Procs : AiUpdate(p)

SpecQuery == InitSeeded /\ [][NextQuery]_vars

\* ================================================================ claims
SameBill(a, b) ==
    a.meterId = b.meterId /\ a.billingStart = b.billingStart /\ a.billingEnd = b.billingEnd

VersionsOf(b) == {x \in StoredBills : SameBill(x, b)}

\* The scope of section 4.1: what a caller is entitled to see.
InScopeOf(user, row) ==
    CASE user.role = "SUPER_ADMIN" -> TRUE
      [] user.role = "STATE_ADMIN" -> user.stateId # NULL /\ row.stateId = user.stateId
      [] user.role = "BOARD_ADMIN" -> user.boardId # NULL /\ row.boardId = user.boardId
      [] OTHER -> IF user.boardId # NULL THEN row.boardId = user.boardId
                  ELSE IF user.stateId # NULL THEN row.stateId = user.stateId
                  ELSE TRUE

\* C1: every logical bill (meterId, billingStart, billingEnd) that has a stored
\* record has exactly one stored record with isLatest = TRUE.
C1_ExactlyOneLatest ==
    \A b \in StoredBills : Cardinality({x \in VersionsOf(b) : x.isLatest}) = 1

\* C2: a recalculation that read a record as the latest one and finds it
\* superseded by a concurrent recalculation when its transaction runs does not
\* commit a new version (it fails or retries).
C2_RaceLoserDoesNotCommit ==
    [][\A p \in Procs :
         (/\ pc[p] = "tx" /\ pc'[p] = "idle"
          /\ local[p][1].existing.isLatest
          /\ ~bills[local[p][1].id].isLatest)
         => bills' = bills]_vars

\* C3: a STATE_ADMIN without stateId, or a BOARD_ADMIN without boardId, gets
\* nothing from any scope-filtered read.
C3_ScopeFailClosed ==
    \A user \in AnyCaller :
        (\/ user.role = "STATE_ADMIN" /\ user.stateId = NULL
         \/ user.role = "BOARD_ADMIN" /\ user.boardId = NULL)
        => /\ \A f \in ListBillsFilter : listBills(f, user) = {}
           /\ \A id \in BillIds : getBillById(id, user) = {}
           /\ \A f \in ListConsumersFilter : listConsumers(f, user) = {}
           /\ \A r \in RoleFilters : listUsers(user, r) = {}

\* C4: a recalculation step either applies the flip of the old record, the new
\* record and the log row together, or (when it fails) leaves the whole store
\* as it was.
C4_TransactionAtomic ==
    [][result'.op = "recalculateBill" =>
         IF result'.kind = "ok"
         THEN /\ Len(bills') = Len(bills) + 1
              /\ Len(logs') = Len(logs) + 1
              /\ \E i \in 1 .. Len(bills) : bills'[i].isLatest = FALSE
                     /\ logs'[Len(logs')].previousVersion = bills[i].version
         ELSE UNCHANGED store]_vars

\* A recalculation failed inside its transaction while the record it targeted
\* is stored.
C4_Witness ==
    /\ result.op = "recalculateBill" /\ result.kind = "Internal"
    /\ \E b \in StoredBills : b.isLatest
    /\ Len(logs) = 0

\* C5: the version numbers of the stored records of one logical bill are
\* exactly 1 .. n, each once.
C5_VersionsContiguous ==
    \A b \in StoredBills :
        /\ {x.version : x \in VersionsOf(b)} = 1 .. Cardinality(VersionsOf(b))
        /\ \A x, y \in VersionsOf(b) : x.version = y.version => x = y

\* C6: a successful recalculateBill of record b with reason r by user u adds one
\* record (version b.version + 1, isLatest, same meter and period), flips only
\* b.isLatest, and adds one log row for the new record's id with
\* previousVersion, newVersion, reason r and triggeredBy u.
C6_RecalculateEffect ==
    [][\A input \in RecalculateInput, user \in Callers :
         (/\ result'.op = "recalculateBill" /\ result'.kind = "ok"
          /\ RecalculateBill(input, user, 0)) =>
            LET b == bills[input.billingReportId]
                n == bills'[Len(bills')]
                l == logs'[Len(logs')]
            IN /\ Len(bills') = Len(bills) + 1
               /\ n.id = Len(bills') /\ n.version = b.version + 1 /\ n.isLatest
               /\ SameBill(n, b)
               /\ \A i \in 1 .. Len(bills) :
                     bills'[i] = IF i = b.id THEN [b EXCEPT !.isLatest = FALSE]
                                 ELSE bills[i]
               /\ Len(logs') = Len(logs) + 1
               /\ SubSeq(logs', 1, Len(logs)) = logs
               /\ l.billingReportId = n.id
               /\ l.previousVersion = b.version /\ l.newVersion = b.version + 1
               /\ l.reason = input.reason /\ l.triggeredBy = user.id]_vars

\* A recalculation has succeeded: a version above 1 and its log row are stored.
C6_Witness ==
    /\ result.op = "recalculateBill" /\ result.kind = "ok"
    /\ \E l \in StoredLogs : bills[l.billingReportId].version = 2

\* C7: a stored BillingReport is never deleted and none of its fields changes,
\* except isLatest, which only goes from TRUE to FALSE.
C7_BillsImmutable ==
    [][/\ Len(bills') >= Len(bills)
       /\ \A i \in 1 .. Len(bills) :
            /\ [bills'[i] EXCEPT !.isLatest = bills[i].isLatest] = bills[i]
            /\ bills'[i].isLatest => bills[i].isLatest]_vars

\* A record has been superseded and a retention sweep has deleted readings.
C7_Witness ==
    /\ \E b \in StoredBills : ~b.isLatest
    /\ \E b \in StoredBills : ReadingsIn(b.meterId, b.billingStart, b.billingEnd) = {}

\* C8: for a STATE_ADMIN with a stateId (a BOARD_ADMIN with a boardId),
\* getBillById, listBills with any filter and getRecalculationHistory return
\* only bills of meters whose consumer is in that state (board).
C8_Scoped(user, row) ==
    IF user.role = "STATE_ADMIN" THEN row.stateId = user.stateId
    ELSE row.boardId = user.boardId

C8_BillReadsScoped ==
    \A user \in AnyCaller :
        (\/ user.role = "STATE_ADMIN" /\ user.stateId # NULL
         \/ user.role = "BOARD_ADMIN" /\ user.boardId # NULL)
        => /\ \A id \in BillIds : \A b \in getBillById(id, user) :
                 C8_Scoped(user, MeterConsumer(b.meterId))
           /\ \A f \in ListBillsFilter : \A b \in listBills(f, user) :
                 C8_Scoped(user, MeterConsumer(b.meterId))
           /\ \A id \in BillIds : \A l \in getRecalculationHistory(id, user) :
                 C8_Scoped(user, MeterConsumer(bills[l.billingReportId].meterId))

\* Bills of both states are stored, one of them recalculated; the S1 admin
\* lists some but not all of the latest bills and reads a history.
C8_Witness ==
    LET user == User["u2"]
        all == [meterId |-> NULL, consumerId |-> NULL,
                billingStart |-> NoDate, billingEnd |-> NoDate]
    IN /\ listBills(all, user) # {}
       /\ \E b \in StoredBills : b.isLatest /\ b \notin listBills(all, user)
       /\ \E id \in BillIds : getRecalculationHistory(id, user) # {}

\* C9: a non-SUPER_ADMIN admin with a stateId or boardId reads consumers only
\* inside the assigned state or board.
C9_InAssigned(user, row) ==
    \/ user.stateId # NULL /\ row.stateId = user.stateId
    \/ user.boardId # NULL /\ row.boardId = user.boardId

C9_ConsumerReadsScoped ==
    \A user \in AnyCaller :
        (user.role # "SUPER_ADMIN" /\ (user.stateId # NULL \/ user.boardId # NULL))
        => /\ \A c \in ConsumerIds : \A row \in getConsumerProfile(c, user) :
                 C9_InAssigned(user, row)
           /\ \A f \in ListConsumersFilter : \A row \in listConsumers(f, user) :
                 C9_InAssigned(user, row)

\* C10: recalculateBill by a caller allowed to recalculate, on a stored record
\* whose meter's consumer is outside the caller's scope, gives the not-found
\* error of a missing record id and changes nothing in the store.
C10_OutOfScopeIsNotFound ==
    [][\A input \in RecalculateInput, user \in Callers, failAt \in FailPoints :
         (/\ RecalculateBill(input, user, failAt)
          /\ checkPermission(user, "billing:recalculate")
          /\ input.billingReportId <= Len(bills)
          /\ ~InScopeOf(user, MeterConsumer(bills[input.billingReportId].meterId)))
         => /\ result' = NotFoundError("recalculateBill", "BillingReport")
            /\ UNCHANGED store]_vars

\* C11: for getBillById, getRecalculationHistory, generateBill,
\* aggregateConsumption and getAggregates, a stored id outside the state or
\* board the caller is assigned to gives exactly the outcome of an id that is
\* not stored; for a caller that holds the route's permission it is never
\* Forbidden, and it is the NotFound error whenever the dates are valid.
C11_Assigned(user) ==
    /\ ~(user.role = "STATE_ADMIN" /\ user.stateId = NULL)
    /\ ~(user.role = "BOARD_ADMIN" /\ user.boardId = NULL)

C11_OutOfScope(user, row) == C11_Assigned(user) /\ ~InScopeOf(user, row)

C11_AsMissing(out, missing, user, permission, valid) ==
    /\ out = missing
    /\ checkPermission(user, permission) =>
          /\ out.kind # "Forbidden"
          /\ valid => out.kind = "NotFound"

C12_Callers ==
    {user \in AnyCaller \cup Callers : user.role \in {"SUPPORT_AGENT", "AUDITOR"}}

C12_RecalculateForbidden ==
    [][result'.op = "recalculateBill" =>
         /\ \A user \in C12_Callers \cap MeterCallers, input \in RecalculateInput,
               failAt \in FailPoints :
               RecalculateBill(input, user, failAt)
               => /\ result' = ForbiddenError("recalculateBill")
                  /\ UNCHANGED store
         /\ result'.kind = "Forbidden" =>
               \A user \in C12_Callers, input \in RecalculateInput :
                  RecalculateCheck(input, user) = ForbiddenError("recalculateBill")]_vars

\* The SUPPORT_AGENT of board B1 has been refused while a bill of its own
\* board is stored.
C12_Witness ==
    /\ result = ForbiddenError("recalculateBill")
    /\ \E b \in StoredBills : InScopeOf(User["u5"], MeterConsumer(b.meterId))

\* C13: generateBill on a meter the caller reaches, for a valid window that
\* holds no reading of the meter, fails with the invalid-input error and
\* stores no bill.
C13_EmptyWindowRejected ==
    [][result'.op = "generateBill" =>
         \A input \in MeterGenerateInput, user \in BillingCallers :
            (/\ checkPermission(user, "billing:generate")
             /\ input.billingStart # BadDate
             /\ input.billingStart < input.billingEnd
             /\ findMeter(input.meterId, user) # NULL
             /\ ReadingsIn(input.meterId, input.billingStart, input.billingEnd) = {}
             /\ GenerateBill(input, user))
            => /\ result'.kind = "BadRequest"
               /\ result'.msg = "No meter readings found for the specified billing period"
               /\ UNCHANGED store]_vars

\* A generateBill has been refused for want of readings, on a meter whose
\* readings a retention sweep has deleted.
C13_Witness ==
    /\ result = BadRequestError("generateBill",
                                "No meter readings found for the specified billing period")
    /\ ReadingsIn("m1", 1, 3) = {}
    /\ bills # <<>>

\* C14: recalculateBill on a bill whose window holds no reading any more
\* fails and creates no new version.
C14_RecalculateNeedsReadings ==
    [][result'.op = "recalculateBill" =>
         \A input \in RecalculateInput, user \in MeterCallers, failAt \in FailPoints :
            (/\ RecalculateCheck(input, user).kind = "ok"
             /\ LET b == bills[input.billingReportId]
                IN ReadingsIn(b.meterId, b.billingStart, b.billingEnd) = {}
             /\ RecalculateBill(input, user, failAt))
            => /\ result'.kind # "ok"
               /\ bills' = bills]_vars

C16_Rate(input) == IF input.taxRate = NoTaxRate THEN 0 ELSE input.taxRate

C17_TaxRatioKept ==
    [][result'.op = "recalculateBill" /\ result'.kind = "ok" =>
         \A input \in RecalculateInput, user \in BillingCallers :
            RecalculateBill(input, user, 0) =>
               LET b == bills[input.billingReportId]
                   n == bills'[Len(bills')]
                   subtotalOld == b.energyCharge + b.fixedCharge
                   subtotalNew == n.energyCharge + n.fixedCharge
               IN /\ n.taxAmount = IF b.taxAmount # 0
                                   THEN RoundDiv(subtotalNew * b.taxAmount, subtotalOld)
                                   ELSE 0
                  /\ n.totalAmount = subtotalNew + n.taxAmount]_vars

\* A taxed bill has been recalculated after a sweep removed a part of its
\* readings: the new version has another subtotal and another tax amount.
C17_Witness ==
    /\ result = Ok("recalculateBill")
    /\ \E b, n \in StoredBills :
          /\ SameBill(b, n) /\ n.version = b.version + 1
          /\ b.taxAmount > 0 /\ n.taxAmount > 0 /\ n.taxAmount # b.taxAmount
          /\ n.energyCharge # b.energyCharge

\* C18: recalculating a record while the readings of its window and the
\* tariff are what they were when the record was computed yields the same
\* totalUnits, energyCharge, fixedCharge, taxAmount and totalAmount, for the
\* first recalculation and for every further one; a record with energyCharge
\* 1000.00, fixedCharge 100.00 and taxAmount 55.00 keeps taxAmount 55.00.
C18_SeedReadings ==
    {[meterId |-> "m1", timestamp |-> 1, consumption |-> 1005],
     [meterId |-> "m1", timestamp |-> 2, consumption |-> 2500],
     [meterId |-> "m2", timestamp |-> 1, consumption |-> 500]}

C18_Charges(r) ==
    <<r.totalUnits, r.energyCharge, r.fixedCharge, r.taxAmount, r.totalAmount>>

\* 200 units at 5.000 with a fixed charge of 100.000: the record of the example.
C18_ExampleTariff == [id |-> "T0", unitRate |-> 5000, fixedCharge |-> 100000]
C18_Example ==
    LET old == [energyCharge |-> 100000, fixedCharge |-> 10000, taxAmount |-> 5500]
        c == RecalculateCharges(200000, C18_ExampleTariff, old)
    IN c.energyCharge = 100000 /\ c.fixedCharge = 10000 /\ c.taxAmount = 5500

C18_RecalculateIdempotent ==
    [][result'.op = "recalculateBill" /\ result'.kind = "ok" =>
         /\ C18_Example
         /\ \A input \in RecalculateInput, user \in BillingCallers :
               LET b == bills[input.billingReportId]
                   n == bills'[Len(bills')]
                   window == {r \in C18_SeedReadings :
                                /\ r.meterId = b.meterId
                                /\ r.timestamp >= b.billingStart
                                /\ r.timestamp <= b.billingEnd}
               IN (/\ RecalculateBill(input, user, 0)
                   /\ window \subseteq readings
                   /\ meterTariff[b.meterId] = b.tariffId)
                  => C18_Charges(n) = C18_Charges(b)]_vars

\* A taxed bill has been recalculated twice with nothing changed: versions
\* 1, 2 and 3 carry the same charges.
C18_Witness ==
    /\ result = Ok("recalculateBill")
    /\ readings = C18_SeedReadings
    /\ \E a, b, c \in StoredBills :
          /\ SameBill(a, b) /\ SameBill(b, c)
          /\ a.version = 1 /\ b.version = 2 /\ c.version = 3
          /\ a.taxAmount > 0
          /\ C18_Charges(a) = C18_Charges(b) /\ C18_Charges(b) = C18_Charges(c)

\* C19: the consumption total that generateBill, recalculateBill,
\* aggregateConsumption and getMeterConsumptionSummary work with is the sum
\* of the consumption of the readings of the given meter, and of no other
\* meter, whose timestamp t has start <= t <= end, both ends included.
C19_Before(m, t) ==
    SumConsumption({r \in readings : r.meterId = m /\ r.timestamp < t})

\* Everything up to and including end, less everything before start.
C19_Total(m, start, end) == C19_Before(m, end + 1) - C19_Before(m, start)

C19_WindowTotals ==
    [][/\ result'.op = "generateBill" /\ result'.kind = "ok" =>
            \A input \in MeterGenerateInput, user \in BillingCallers :
               GenerateBill(input, user) =>
                  LET n == bills'[Len(bills')]
                      total == C19_Total(input.meterId, input.billingStart,
                                         input.billingEnd)
                  IN /\ n.totalUnits = RoundDiv(total, 10)
                     /\ n.energyCharge =
                           RoundDiv(total * Tariff[n.tariffId].unitRate, 10000)
       /\ result'.op = "recalculateBill" /\ result'.kind = "ok" =>
            \A input \in RecalculateInput, user \in MeterCallers :
               RecalculateBill(input, user, 0) =>
                  LET b == bills[input.billingReportId]
                      n == bills'[Len(bills')]
                      total == C19_Total(b.meterId, b.billingStart, b.billingEnd)
                  IN /\ n.totalUnits = RoundDiv(total, 10)
                     /\ n.energyCharge =
                           RoundDiv(total * Tariff[n.tariffId].unitRate, 10000)
       /\ result'.op = "aggregateConsumption" /\ result'.kind = "ok" =>
            \A input \in MeterAggregateInput, user \in BillingCallers :
               AggregateConsumption(input, user) =>
                  \E i \in AggIndex(aggregates', input) :
                     aggregates'[i].totalUnits =
                        RoundDiv(C19_Total(input.meterId, input.periodStart,
                                           input.periodEnd), 10)
       /\ \A m \in MeterIds, user \in MeterCallers :
            getMeterConsumptionSummaryOutcome(m, user).kind = "ok" =>
               \A start \in {1, 2}, end \in {2, 3} :
                  start < end =>
                     getMeterConsumptionSummary(m, start, end).totalUnits
                        = RoundDiv(C19_Total(m, start, end), 10)]_vars

\* A bill and an aggregate of the window [1, 2] of meter m1 are stored, the
\* bill in two versions computed before and after a sweep that removed the
\* reading at t = 1 and kept the one at t = 2, the end of the window.
C19_Witness ==
    /\ \E a \in StoredAggregates : a.periodEnd = 2 /\ a.totalUnits > 0
    /\ \E b, n \in StoredBills :
          /\ SameBill(b, n) /\ b.billingEnd = 2 /\ n.version = b.version + 1
          /\ n.totalUnits > 0 /\ n.totalUnits < b.totalUnits
    /\ getMeterConsumptionSummary("m1", 1, 2).readingCount = 1

\* C20: the ConsumptionAggregate table never holds two rows with the same
\* (meterId, periodStart, granularity), also when aggregateConsumption calls
\* on one key overlap; a call that commits leaves in the row of its key the
\* period end and the total it computed, and a call that is refused leaves
\* the table as it was.
C20_SameKey(a, b) ==
    a.meterId = b.meterId /\ a.periodStart = b.periodStart
    /\ a.granularity = b.granularity

C20_OneRowPerKey ==
    [][/\ \A i, j \in 1 .. Len(aggregates') :
            C20_SameKey(aggregates'[i], aggregates'[j]) => i = j
       /\ \A p \in Procs :
            (pc[p] \in {"upsert", "write"} /\ pc'[p] = "idle") =>
               IF result'.kind = "ok"
               THEN \E i \in 1 .. Len(aggregates') :
                       /\ C20_SameKey(aggregates'[i], local[p][1])
                       /\ aggregates'[i].periodEnd = local[p][1].periodEnd
                       /\ aggregates'[i].totalUnits = local[p][1].totalUnits
               ELSE aggregates' = aggregates]_vars

\* Two overlapping calls on one key: the second insert has been refused by
\* the unique index, and the row of the key holds the totals of the first.
C20_Witness ==
    /\ result = ConflictError("aggregateConsumption")
    /\ Len(aggregates) >= 1
    /\ \A p \in Procs : pc[p] = "idle"

\* ------------------------------------------------------------------ C21
\* A row is in the scope of a policy when its owner's state and board are the
\* ones the policy names; a policy covers a row when it is global or names the
\* state or the board of the row's owner.
C21_InScope(p, r) ==
    LET o == RowScope(p.entityType, r)
    IN /\ p.stateId # NULL => o.stateId = p.stateId
       /\ p.boardId # NULL => o.boardId = p.boardId
C21_Covers(p, r) ==
    LET o == RowScope(p.entityType, r)
    IN \/ p.stateId = NULL /\ p.boardId = NULL
       \/ p.stateId # NULL /\ o.stateId = p.stateId
       \/ p.boardId # NULL /\ o.boardId = p.boardId

\* C21: a sweep at time now deletes, for a policy with retentionDays d whose
\* delete does not fail, the in-scope rows stamped strictly before now - d,
\* and keeps the in-scope rows stamped at or after now - d that no other
\* policy covers (d = 30 at day 100: day 69 goes, day 70 stays).
C21_CutoffExclusive ==
    [][\A now \in Nows, fails \in SUBSET (1 .. Len(policies)) :
         result'.op = "runRetentionCleanup" /\ RunRetentionCleanup(now, fails) =>
            \A i \in (1 .. Len(policies)) \ fails :
               LET p == policies[i]
                   cutoff == now - p.retentionDays
               IN \A r \in TableOf(Tables, p.entityType) :
                     C21_InScope(p, r) =>
                        /\ RowTime(p.entityType, r) < cutoff =>
                              r \notin TableOf(Tables', p.entityType)
                        /\ (/\ RowTime(p.entityType, r) >= cutoff
                            /\ \A j \in (1 .. Len(policies)) \ {i} :
                                  ~(/\ policies[j].entityType = p.entityType
                                    /\ C21_Covers(policies[j], r)))
                           => r \in TableOf(Tables', p.entityType)]_vars

\* The 30-day policy of state S1 has been swept at day 100: the reading of
\* day 69 is gone, the reading of day 70 is still stored.
C21_Witness ==
    /\ \E k \in 1 .. Len(sweep) :
          /\ sweep[k].entityType = "MeterReading"
          /\ sweep[k].retentionDays = 30 /\ sweep[k].cutoffDate = 70
          /\ sweep[k].deletedCount > 0
    /\ \A p \in 1 .. Len(policies) : policies[p].retentionDays = 30
    /\ \E r \in readings : r.meterId = "m1" /\ r.timestamp = 70
    /\ ~\E r \in readings : r.meterId = "m1" /\ r.timestamp = 69

\* ------------------------------------------------------------------ C22
\* C22: every row a sweep deletes is a row of the entity type of one of the
\* policies processed, owned within the state and the board that policy names;
\* rows of other entity types, states or boards stay.
C22_DeletesOnlyWithinPolicy ==
    [][\A now \in Nows, fails \in SUBSET (1 .. Len(policies)) :
         result'.op = "runRetentionCleanup" /\ RunRetentionCleanup(now, fails) =>
            \A e \in EntityTypes :
               \A r \in TableOf(Tables, e) \ TableOf(Tables', e) :
                  \E i \in (1 .. Len(policies)) \ fails :
                     /\ policies[i].entityType = e
                     /\ C21_InScope(policies[i], r)]_vars

\* ------------------------------------------------------------------ C23
\* C23: when the deletes of some policies throw, the sweep still returns
\* normally with one entry per stored policy, in order; the entry of a failed
\* policy has deletedCount 0, and every other policy has been processed: none
\* of its in-scope rows older than its cutoff is left.
C23_SweepSurvivesFailure ==
    [][\A now \in Nows, fails \in SUBSET (1 .. Len(policies)) :
         result'.op = "runRetentionCleanup" /\ RunRetentionCleanup(now, fails) =>
            /\ result'.kind = "ok"
            /\ Len(sweep') = Len(policies)
            /\ \A i \in 1 .. Len(policies) :
                  LET p == policies[i]
                  IN /\ sweep'[i].policyId = p.id
                     /\ i \in fails => sweep'[i].deletedCount = 0
                     /\ i \notin fails =>
                           \A r \in TableOf(Tables', p.entityType) :
                              C21_InScope(p, r) =>
                                 RowTime(p.entityType, r) >= now - p.retentionDays]_vars

\* A sweep over two policies: the delete of the first threw (its entry counts
\* 0 rows and a row it matches is still stored), the second deleted rows.
C23_Witness ==
    /\ Len(sweep) = 2 /\ Len(policies) = 2
    /\ sweep[1].deletedCount = 0
    /\ \E r \in TableOf(Tables, policies[1].entityType) :
          /\ C21_InScope(policies[1], r)
          /\ RowTime(policies[1].entityType, r) < sweep[1].cutoffDate
    /\ sweep[2].deletedCount > 0

\* ------------------------------------------------------------------ C24
\* C24: every stored policy has retentionDays >= 1 after every create and
\* update; a create with retentionDays < 1, and an update with
\* retentionDays < 1 of a policy the caller can reach, is rejected as a bad
\* request and changes nothing.
C24_RetentionDaysPositive ==
    [][/\ \A i \in 1 .. Len(policies') : policies'[i].retentionDays >= 1
       /\ result'.op = "createRetentionPolicy" =>
             \A input \in PolicyCreateInput, u \in DOMAIN users :
                input.retentionDays < 1 /\ CreateRetentionPolicy(input, users[u]) =>
                   result'.kind = "BadRequest" /\ UNCHANGED store
       /\ result'.op = "updatePolicy" =>
             \A id \in 1 .. Len(policies), input \in PolicyUpdateInput,
                u \in DOMAIN users :
                (/\ input.retentionDays # NoDays /\ input.retentionDays < 1
                 /\ MatchesWhere(policies[id], buildRetentionScopeFilter(users[u]))
                 /\ UpdatePolicy(id, input, users[u])) =>
                   result'.kind = "BadRequest" /\ UNCHANGED store]_vars

\* A create and an update with retentionDays 0 have been refused while a
\* policy is stored, and a stored policy has been updated to 2 days.
C24_Witness ==
    /\ Len(policies) = 2
    /\ policies[1].retentionDays = 2
    /\ result.kind = "BadRequest" /\ result.msg = "retentionDays must be at least 1"
    /\ result.op = "updatePolicy"

\* ------------------------------------------------------------------ C26
\* C26: a policy created by a STATE_ADMIN carries that admin's state, a policy
\* created by a BOARD_ADMIN that admin's board: it is never global and never
\* names another state or board.
C26_PolicyWithinCreatorScope ==
    [][result'.op = "createRetentionPolicy" /\ result'.kind = "ok" =>
          \A input \in PolicyCreateInput, u \in DOMAIN users :
             CreateRetentionPolicy(input, users[u]) =>
                LET p == policies'[Len(policies')]
                IN /\ users[u].role = "STATE_ADMIN" =>
                         p.stateId # NULL /\ p.stateId = users[u].stateId
                   /\ users[u].role = "BOARD_ADMIN" =>
                         p.boardId # NULL /\ p.boardId = users[u].boardId]_vars

\* ------------------------------------------------------------------ C25
\* C25: every stored consumer's stateId is the stateId of its board, and a
\* registration whose board belongs to another state than the one given is
\* refused and stores nothing.
C25_ConsumerBoardInState ==
    [][/\ \A c \in DOMAIN consumers' :
             BoardState[consumers'[c].boardId] = consumers'[c].stateId
       /\ result'.op = "registerConsumer" =>
             \A input \in RegisterConsumerInput, clerkUserId \in ClerkUserIds :
                (/\ input.boardId \in Boards
                 /\ BoardState[input.boardId] # input.stateId
                 /\ RegisterConsumer(input, clerkUserId)) =>
                   result'.kind = "BadRequest" /\ UNCHANGED store]_vars

\* A third consumer is registered, and a registration with the board of the
\* other state has just been refused.
C25_Witness ==
    /\ "c3" \in DOMAIN consumers
    /\ result.op = "registerConsumer"
    /\ result.msg = "Board does not belong to the selected state"

\* ------------------------------------------------------------------ C29
\* C29: a view row exists only for a bill whose meter belongs to the viewing
\* consumer; for a bill on another consumer's meter recordBillView answers
\* not-found as getConsumerBillById does and stores no row.
C29_ViewOnlyOwnBill ==
    [][result'.op = "recordBillView" =>
          \A billId \in BillIds, c \in ConsumerIds :
             (/\ getConsumerBillByIdOutcome(billId, c).kind = "NotFound"
              /\ RecordBillView(billId, c)) =>
                result'.kind = "NotFound" /\ UNCHANGED billViews]_vars

\* ------------------------------------------------------------------ C27
\* C27: after updateUserScope by a STATE_ADMIN the target user's state, and
\* the state of its board, is the caller's state; after updateUserScope by a
\* BOARD_ADMIN the target's board is the caller's board and its state the
\* state of that board, whichever of stateId and boardId were supplied.  An
\* id left empty is outside nobody's scope.
C27_ScopeStaysWithinCaller ==
    [][result'.op = "updateUserScope" /\ result'.kind = "ok" =>
          \A id \in ManagedUserIds, stateId \in States \cup {NULL},
             boardId \in Boards \cup {NULL}, u \in AdminCallers :
             UpdateUserScope(id, stateId, boardId, users[u]) =>
                LET a == users[u]
                    t == users'[id]
                IN /\ a.role = "STATE_ADMIN" /\ a.stateId # NULL =>
                         /\ t.stateId \in {NULL, a.stateId}
                         /\ t.boardId # NULL => BoardState[t.boardId] = a.stateId
                   /\ a.role = "BOARD_ADMIN" /\ a.boardId # NULL =>
                         /\ t.boardId \in {NULL, a.boardId}
                         /\ t.stateId \in {NULL, BoardState[a.boardId]}]_vars

\* ------------------------------------------------------------------ C28
\* The (caller role, target role) pairs of the documented hierarchy.
C28_Allowed(creatorRole, targetRole) ==
    \/ creatorRole = "SUPER_ADMIN" /\ targetRole \in {"STATE_ADMIN", "AUDITOR"}
    \/ creatorRole = "STATE_ADMIN" /\ targetRole = "BOARD_ADMIN"
    \/ creatorRole = "BOARD_ADMIN" /\ targetRole = "SUPPORT_AGENT"

\* C28: createAdminUser and updateUserRole succeed only for the pairs of the
\* hierarchy; for any other pair createAdminUser, and updateUserRole on a user
\* the caller can reach, answers Forbidden and changes nothing.
C28_HierarchyEnforced ==
    [][/\ result'.op = "createAdminUser" =>
             \A id \in NewUserIds, input \in CreateAdminUserInput, u \in AdminCallers :
                (/\ ~C28_Allowed(users[u].role, input.role)
                 /\ CreateAdminUser(id, input, users[u])) =>
                   result'.kind = "Forbidden" /\ UNCHANGED store
       /\ result'.op = "updateUserRole" =>
             \A id \in ManagedUserIds, role \in Roles, u \in AdminCallers :
                (/\ ~C28_Allowed(users[u].role, role)
                 /\ findUser(id, users[u])
                 /\ UpdateUserRole(id, role, users[u])) =>
                   result'.kind = "Forbidden" /\ UNCHANGED store]_vars

\* ------------------------------------------------------------------ C30
\* C30: the update of classifyQueryWithAi or autoResolveQueryWithAi is
\* applied only to a query that is PENDING at that moment, so of two calls
\* racing on one PENDING query at most one takes effect.
C30_UpdateOnlyPending ==
    [][\A p \in Procs :
          AiUpdate(p) /\ result'.kind = "ok" =>
             \A q \in queries : q.id = local[p][1].id => q.status = "PENDING"]_vars

====
